---- MODULE Spec2Model ----
(***************************************************************************)
(* A model of class DB of src/Homework/HW2/HW2 Programming/src/db.py: the  *)
(* four query builders, the four high-level operations and execute_query.  *)
(*                                                                         *)
(* A Python str is a sequence of one-character strings, so that slicing    *)
(* (query_str[:-1]), concatenation and the text of a template are what the *)
(* code computes.  A Python dict (KV) is the sequence of its <<key, value>>*)
(* pairs in insertion order, with distinct keys.                           *)
(***************************************************************************)
EXTENDS Integers, Sequences, FiniteSets

(***************************************************************************)
(* Bounds of the model.                                                    *)
(***************************************************************************)
\* the longest columns list of a call
MaxCols == 2
\* the largest number of entries of a values or filters dict of a call
MaxEntries == 2
\* the largest affected-row count the cursor reports
MaxCount == 1
\* the largest number of rows the cursor's fetchall() returns
MaxRows == 1

(***************************************************************************)
(* The string literals of db.py, character by character.                   *)
(***************************************************************************)
\* 'SELECT ' (line 59)
Lit_SELECT ==
    <<"S", "E", "L", "E", "C", "T", " ">>
\* '* ' (line 63)
Lit_STAR ==
    <<"*", " ">>
\* ', ' (lines 67, 128)
Lit_COMMA ==
    <<",", " ">>
\* ' ' (lines 70, 75, 229)
Lit_SPACE ==
    <<" ">>
\* 'FROM ' (line 73)
Lit_FROM ==
    <<"F", "R", "O", "M", " ">>
\* 'WHERE ' (lines 83, 237)
Lit_WHERE ==
    <<"W", "H", "E", "R", "E", " ">>
\* ' = %s AND ' (lines 86, 195, 240)
Lit_EQ_AND ==
    <<" ", "=", " ", "%", "s", " ", "A", "N", "D", " ">>
\* ' = %s' (lines 90, 185, 199, 244)
Lit_EQ ==
    <<" ", "=", " ", "%", "s">>
\* 'INSERT INTO ' (line 116)
Lit_INSERT_INTO ==
    <<"I", "N", "S", "E", "R", "T", " ", "I", "N", "T", "O", " ">>
\* ' (' (line 120)
Lit_LPAREN ==
    <<" ", "(">>
\* ') VALUES (' (line 131)
Lit_VALUES ==
    <<")", " ", "V", "A", "L", "U", "E", "S", " ", "(">>
\* '%s, ' (line 136)
Lit_PH_COMMA ==
    <<"%", "s", ",", " ">>
\* '%s)' (line 139)
Lit_PH_CLOSE ==
    <<"%", "s", ")">>
\* 'UPDATE ' (line 165)
Lit_UPDATE ==
    <<"U", "P", "D", "A", "T", "E", " ">>
\* ' SET ' (line 169)
Lit_SET ==
    <<" ", "S", "E", "T", " ">>
\* ' = %s, ' (line 181)
Lit_EQ_COMMA ==
    <<" ", "=", " ", "%", "s", ",", " ">>
\* ' WHERE ' (line 192)
Lit_SP_WHERE ==
    <<" ", "W", "H", "E", "R", "E", " ">>
\* 'DELETE FROM ' (line 225)
Lit_DELETE_FROM ==
    <<"D", "E", "L", "E", "T", "E", " ", "F", "R", "O", "M", " ">>

(***************************************************************************)
(* Python values.                                                          *)
(***************************************************************************)
\* list(d.keys()) of a dict d (lines 85, 123, 174, 176, 239)
DictKeys(d) ==
    [i \in 1..Len(d) |-> d[i][1]]

\* list(d.values()) of a dict d (lines 87, 124, 175, 177, 241)
DictValues(d) ==
    [i \in 1..Len(d) |-> d[i][2]]

\* s[:-1] of a str s (lines 81, 235); '' when s is empty
DropLast(s) ==
    IF Len(s) = 0 THEN s ELSE SubSeq(s, 1, Len(s) - 1)

\* what a builder hands back: a Query (template, arguments), line 9
Return(q, a) ==
    [kind |-> "return", query |-> q, args |-> a, exc |-> "none"]

\* a call that ends in an exception instead of a value
Raise(e) ==
    [kind |-> "raise", query |-> <<>>, args |-> <<>>, exc |-> e]

\* The names bound at module level in db.py (lines 1-11); a name that is
\* neither a local of the running function nor one of these (nor a builtin)
\* raises NameError when it is read.
ModuleGlobals ==
    {"Any", "Dict", "List", "Tuple", "Union", "pymysql", "KV", "Query", "DB"}

\* Reading `name` in a function whose local names are DOMAIN locals.
NameIsBound(name, locals) ==
    name \in DOMAIN locals \/ name \in ModuleGlobals

(***************************************************************************)
(* build_select_query (lines 50-93).                                       *)
(***************************************************************************)
RECURSIVE SelectRowsLoop(_, _, _)
\* for i in range(len(rows) - 1): query_str += rows[i] + ', ' (lines 65-67)
SelectRowsLoop(rows, i, query_str) ==
    IF i > Len(rows) - 1 THEN query_str
    ELSE SelectRowsLoop(rows, i + 1, query_str \o rows[i] \o Lit_COMMA)

RECURSIVE FilterLoop_NoAppend(_, _, _, _)
\* FilterLoop without replace_val.append(...) in the loop body
FilterLoop_NoAppend(filters, i, query_str, replace_val) ==
    IF i > Len(filters) - 1 THEN [q |-> query_str, a |-> replace_val]
    ELSE FilterLoop_NoAppend(filters, i + 1,
                             query_str \o DictKeys(filters)[i] \o Lit_EQ_AND,
                             replace_val)

RECURSIVE FilterLoop(_, _, _, _)
\* for i in range(len(filters) - 1): query_str += key_i + ' = %s AND ';
\* replace_val.append(value_i) (lines 84-87, 193-196, 238-241)
FilterLoop(filters, i, query_str, replace_val) ==
    IF i > Len(filters) - 1 THEN [q |-> query_str, a |-> replace_val]
    ELSE FilterLoop(filters, i + 1,
                    query_str \o DictKeys(filters)[i] \o Lit_EQ_AND,
                    Append(replace_val, DictValues(filters)[i]))

\* lines 59-93 with `rows` bound to a list
SelectBody(table, rows, filters) ==
    LET q1 == IF Len(rows) = 0
              THEN Lit_SELECT \o Lit_STAR
              ELSE SelectRowsLoop(rows, 1, Lit_SELECT)
                       \o rows[Len(rows)] \o Lit_SPACE
        q2 == q1 \o Lit_FROM \o table \o Lit_SPACE
    IN  IF Len(filters) = 0
        THEN Return(DropLast(q2), <<>>)
        ELSE LET l == FilterLoop(filters, 1, q2 \o Lit_WHERE, <<>>)
             IN  Return(l.q \o DictKeys(filters)[Len(filters)] \o Lit_EQ,
                        Append(l.a, DictValues(filters)[Len(filters)]))

\* The parameters are table, columns and filters (line 50); the body reads
\* `rows` (line 62), which no parameter, local or module-level name binds.
build_select_query(table, columns, filters) ==
    LET locals == [table |-> table, columns |-> columns, filters |-> filters]
    IN  IF ~NameIsBound("rows", locals)
        THEN Raise("NameError")
        ELSE SelectBody(table, locals["rows"], filters)

(***************************************************************************)
(* build_insert_query (lines 108-142).                                     *)
(***************************************************************************)
RECURSIVE InsertKeysLoop(_, _, _)
\* for i in range(len(keys) - 1): query_str += keys[i] + ', ' (lines 126-128)
InsertKeysLoop(keys, i, query_str) ==
    IF i > Len(keys) - 1 THEN query_str
    ELSE InsertKeysLoop(keys, i + 1, query_str \o keys[i] \o Lit_COMMA)

RECURSIVE InsertValuesLoop_OffByOne(_, _, _, _)
\* InsertValuesLoop appending vls[i + 1] where the code appends vls[i]
InsertValuesLoop_OffByOne(vls, i, query_str, replace_val) ==
    IF i > Len(vls) - 1 THEN [q |-> query_str, a |-> replace_val]
    ELSE InsertValuesLoop_OffByOne(vls, i + 1, query_str \o Lit_PH_COMMA,
                                   Append(replace_val, vls[i + 1]))

RECURSIVE InsertValuesLoop(_, _, _, _)
\* for i in range(len(vls) - 1): query_str += '%s, ';
\* replace_val.append(vls[i]) (lines 135-137)
InsertValuesLoop(vls, i, query_str, replace_val) ==
    IF i > Len(vls) - 1 THEN [q |-> query_str, a |-> replace_val]
    ELSE InsertValuesLoop(vls, i + 1, query_str \o Lit_PH_COMMA,
                          Append(replace_val, vls[i]))

\* build_insert_query that skips keys[-1] and vls[-1] for an empty dict and
\* returns `INSERT INTO <table> () VALUES ()`
build_insert_query_EmptyAccepted(table, values) ==
    LET keys == DictKeys(values)
        vls  == DictValues(values)
        q1   == InsertKeysLoop(keys, 1, Lit_INSERT_INTO \o table \o Lit_LPAREN)
    IN  IF Len(keys) = 0
        THEN Return(q1 \o Lit_VALUES \o <<")">>, <<>>)
        ELSE LET q2 == q1 \o keys[Len(keys)] \o Lit_VALUES
                 l  == InsertValuesLoop(vls, 1, q2, <<>>)
             IN  Return(l.q \o Lit_PH_CLOSE, Append(l.a, vls[Len(vls)]))

\* keys[-1] (line 130) raises IndexError on the empty list
build_insert_query(table, values) ==
    LET keys == DictKeys(values)
        vls  == DictValues(values)
        q1   == InsertKeysLoop(keys, 1, Lit_INSERT_INTO \o table \o Lit_LPAREN)
    IN  IF Len(keys) = 0
        THEN Raise("IndexError")
        ELSE LET q2 == q1 \o keys[Len(keys)] \o Lit_VALUES
                 l  == InsertValuesLoop(vls, 1, q2, <<>>)
             IN  Return(l.q \o Lit_PH_CLOSE, Append(l.a, vls[Len(vls)]))

(***************************************************************************)
(* build_update_query (lines 156-202).                                     *)
(***************************************************************************)
RECURSIVE UpdateSetLoop(_, _, _, _, _)
\* for i in range(len(values_key) - 1): query_str += values_key[i] + ' = %s, ';
\* replace_val.append(values_val[i]) (lines 179-182)
UpdateSetLoop(values_key, values_val, i, query_str, replace_val) ==
    IF i > Len(values_key) - 1 THEN [q |-> query_str, a |-> replace_val]
    ELSE UpdateSetLoop(values_key, values_val, i + 1,
                       query_str \o values_key[i] \o Lit_EQ_COMMA,
                       Append(replace_val, values_val[i]))

\* build_update_query that collects the WHERE arguments before the SET
\* arguments
build_update_query_WhereArgsFirst(table, values, filters) ==
    LET values_key == DictKeys(values)
        values_val == DictValues(values)
        filter_key == DictKeys(filters)
        filter_val == DictValues(filters)
        s == UpdateSetLoop(values_key, values_val, 1,
                           Lit_UPDATE \o table \o Lit_SET, <<>>)
    IN  IF Len(values_key) = 0
        THEN Raise("IndexError")
        ELSE LET q1 == s.q \o values_key[Len(values_key)] \o Lit_EQ
                 a1 == Append(s.a, values_val[Len(values_val)])
             IN  IF Len(filters) = 0
                 THEN Return(q1, a1)
                 ELSE LET l == FilterLoop(filters, 1, q1 \o Lit_SP_WHERE, <<>>)
                      IN  Return(l.q \o filter_key[Len(filter_key)] \o Lit_EQ,
                                 Append(l.a, filter_val[Len(filter_val)]) \o a1)

\* values_key[-1] (line 184) raises IndexError on the empty list
build_update_query(table, values, filters) ==
    LET values_key == DictKeys(values)
        values_val == DictValues(values)
        filter_key == DictKeys(filters)
        filter_val == DictValues(filters)
        s == UpdateSetLoop(values_key, values_val, 1,
                           Lit_UPDATE \o table \o Lit_SET, <<>>)
    IN  IF Len(values_key) = 0
        THEN Raise("IndexError")
        ELSE LET q1 == s.q \o values_key[Len(values_key)] \o Lit_EQ
                 a1 == Append(s.a, values_val[Len(values_val)])
             IN  IF Len(filters) = 0
                 THEN Return(q1, a1)
                 ELSE LET l == FilterLoop(filters, 1, q1 \o Lit_SP_WHERE, a1)
                      IN  Return(l.q \o filter_key[Len(filter_key)] \o Lit_EQ,
                                 Append(l.a, filter_val[Len(filter_val)]))

(***************************************************************************)
(* build_delete_query (lines 217-247).                                     *)
(***************************************************************************)
build_delete_query(table, filters) ==
    LET q1 == Lit_DELETE_FROM \o table \o Lit_SPACE
    IN  IF Len(filters) = 0
        THEN Return(DropLast(q1), <<>>)
        ELSE LET l == FilterLoop(filters, 1, q1 \o Lit_WHERE, <<>>)
             IN  Return(l.q \o DictKeys(filters)[Len(filters)] \o Lit_EQ,
                        Append(l.a, DictValues(filters)[Len(filters)]))

(***************************************************************************)
(* execute_query (lines 27-43) and the cursor it drives.                   *)
(***************************************************************************)
\* no value: the call made no such step
NoValue ==
    [kind |-> "none", tag |-> "none", rows |-> <<>>, count |-> 0, exc |-> "none"]

\* `return cur.fetchall()` (line 41): a list of row dicts
ReturnRows(rows) ==
    [kind |-> "return", tag |-> "rows", rows |-> rows, count |-> 0, exc |-> "none"]

\* `return count` (line 43): the number cur.execute reported
ReturnCount(count) ==
    [kind |-> "return", tag |-> "count", rows |-> <<>>, count |-> count, exc |-> "none"]

\* an exception leaving an operation
RaiseValue(e) ==
    [kind |-> "raise", tag |-> "none", rows |-> <<>>, count |-> 0, exc |-> e]

\* the builder was not called
NotBuilt ==
    [kind |-> "none", query |-> <<>>, args |-> <<>>, exc |-> "none"]

\* the cursor was not used
NoCursor ==
    [fails |-> FALSE, count |-> 0, rows |-> <<>>]

\* execute_query that picks the kind of its result from the statement (rows
\* for a SELECT) instead of from ret_result
execute_query_ByShape(query, args, ret_result, cursor) ==
    LET sent == << [query |-> query, args |-> args] >>
        isSelect == Len(query) >= Len(Lit_SELECT)
                    /\ SubSeq(query, 1, Len(Lit_SELECT)) = Lit_SELECT
    IN  IF cursor.fails
        THEN [out |-> RaiseValue("BackendError"), sent |-> sent]
        ELSE IF isSelect
             THEN [out |-> ReturnRows(cursor.rows), sent |-> sent]
             ELSE [out |-> ReturnCount(cursor.count), sent |-> sent]

\* cur = self.get_cursor(); count = cur.execute(query, args=args);
\* return cur.fetchall() if ret_result else count (lines 38-43).
\* `cursor` is what the pymysql cursor does with the statement: it raises
\* (cursor.fails), or reports cursor.count affected rows and holds cursor.rows.
\* out: what the call returns or raises; sent: the statements handed to
\* cur.execute, in order.
execute_query(query, args, ret_result, cursor) ==
    LET sent == << [query |-> query, args |-> args] >>
    IN  IF cursor.fails
        THEN [out |-> RaiseValue("BackendError"), sent |-> sent]
        ELSE IF ret_result
             THEN [out |-> ReturnRows(cursor.rows), sent |-> sent]
             ELSE [out |-> ReturnCount(cursor.count), sent |-> sent]

(***************************************************************************)
(* select, insert, update, delete (lines 95-105, 144-153, 204-214,         *)
(* 249-258): the builder, then execute_query on what it returned.          *)
(***************************************************************************)
\* BuildThenExecute that swallows the builder's exception and still calls
\* execute_query, with an empty statement
BuildThenExecute_Swallows(builder, b, ret_result, cursor) ==
    LET e == execute_query(b.query, b.args, ret_result, cursor)
    IN  [built |-> b, calls |-> <<builder, "execute_query">>,
         executed |-> << [query |-> b.query, args |-> b.args,
                          ret_result |-> ret_result] >>,
         sent |-> e.sent, result |-> e.out]

\* query_str, replace_val = self.build_X_query(...);
\* return self.execute_query(query_str, replace_val, ret_result)
\* where b is the outcome of the builder call: an exception of the builder
\* leaves the operation before execute_query is reached.
BuildThenExecute(builder, b, ret_result, cursor) ==
    IF b.kind = "raise"
    THEN [built |-> b, calls |-> <<builder>>, executed |-> <<>>,
          sent |-> <<>>, result |-> RaiseValue(b.exc)]
    ELSE LET e == execute_query(b.query, b.args, ret_result, cursor)
         IN  [built |-> b, calls |-> <<builder, "execute_query">>,
              executed |-> << [query |-> b.query, args |-> b.args,
                               ret_result |-> ret_result] >>,
              sent |-> e.sent, result |-> e.out]

\* line 103 reads `rows` to pass it to build_select_query; the parameters are
\* self, table, columns and filters (line 95), so the read raises NameError
\* before the builder is called.
select(table, columns, filters, cursor) ==
    LET locals == [self |-> "DB", table |-> table, columns |-> columns,
                   filters |-> filters]
    IN  IF ~NameIsBound("rows", locals)
        THEN [built |-> NotBuilt, calls |-> <<>>, executed |-> <<>>,
              sent |-> <<>>, result |-> RaiseValue("NameError")]
        ELSE BuildThenExecute("build_select_query",
                 build_select_query(table, locals["rows"], filters),
                 TRUE, cursor)

\* lines 151-153
insert(table, values, cursor) ==
    BuildThenExecute("build_insert_query",
                     build_insert_query(table, values), FALSE, cursor)

\* lines 212-214
update(table, values, filters, cursor) ==
    BuildThenExecute("build_update_query",
                     build_update_query(table, values, filters), FALSE, cursor)

\* lines 256-258
delete(table, filters, cursor) ==
    BuildThenExecute("build_delete_query",
                     build_delete_query(table, filters), FALSE, cursor)

(***************************************************************************)
(* The inputs of a call.                                                   *)
(***************************************************************************)
\* table names
Tables ==
    {<<"t">>, <<"u", "s", "e", "r", "s">>}

\* column names
ColNames ==
    {<<"i", "d">>, <<"n", "a", "m", "e">>, <<"a", "g", "e">>}

\* the scalar values of a dict
Scalars ==
    {5, 30}

\* the sequences over S of length at most n
SeqsUpTo(S, n) ==
    UNION {[1..k -> S] : k \in 0..n}

\* columns: List[str]
ColumnLists ==
    SeqsUpTo(ColNames, MaxCols)

\* KV: a dict's keys are distinct
Dicts ==
    {d \in SeqsUpTo(ColNames \X Scalars, MaxEntries) :
        \A i, j \in 1..Len(d) : i # j => d[i][1] # d[j][1]}

\* what the cursor may do with a statement
Cursors ==
    {[fails |-> TRUE, count |-> 0, rows |-> <<>>]} \cup
    [fails : {FALSE}, count : 0..MaxCount,
     rows : SeqsUpTo({[id |-> 5]}, MaxRows)]

\* the statements of a direct execute_query call
Statements ==
    { [query |-> build_delete_query(<<"t">>, <<>>).query, args |-> <<>>],
      [query |-> SelectBody(<<"t">>, <<>>, <<>>).query, args |-> <<>>],
      [query |-> build_delete_query(<<"t">>, << <<<<"i", "d">>, 5>> >>).query,
       args |-> <<5>>] }

(***************************************************************************)
(* The state: one call on a constructed DB, and what it did.               *)
(***************************************************************************)
VARIABLES
    pc,        \* "ready" before the call, "done" after it
    op,        \* the method called
    table,     \* its table argument
    columns,   \* its columns argument
    values,    \* its values argument
    filters,   \* its filters argument
    built,     \* what the builder returned or raised
    calls,     \* the methods the operation called, in order
    executed,  \* the (query, args, ret_result) execute_query was called with
    sent,      \* the (query, args) handed to cur.execute, in order
    cursor,    \* what the cursor did with the statement
    result     \* what the call returned or raised

vars ==
    <<pc, op, table, columns, values, filters, built, calls, executed, sent,
      cursor, result>>

\* a DB after __init__ (lines 12-22): nothing called yet
Init ==
    /\ pc = "ready"
    /\ op = "none"
    /\ table = <<>>
    /\ columns = <<>>
    /\ values = <<>>
    /\ filters = <<>>
    /\ built = NotBuilt
    /\ calls = <<>>
    /\ executed = <<>>
    /\ sent = <<>>
    /\ cursor = NoCursor
    /\ result = NoValue

\* the state after a call of a builder: a static method, no cursor
Built(name, t, c, v, f, b) ==
    /\ pc' = "done"
    /\ op' = name
    /\ table' = t
    /\ columns' = c
    /\ values' = v
    /\ filters' = f
    /\ built' = b
    /\ calls' = <<>>
    /\ executed' = <<>>
    /\ sent' = <<>>
    /\ cursor' = NoCursor
    /\ result' = NoValue

\* the state after a call that ran r under cursor cur
Ran(name, t, c, v, f, r, cur) ==
    /\ pc' = "done"
    /\ op' = name
    /\ table' = t
    /\ columns' = c
    /\ values' = v
    /\ filters' = f
    /\ built' = r.built
    /\ calls' = r.calls
    /\ executed' = r.executed
    /\ sent' = r.sent
    /\ cursor' = IF r.sent = <<>> THEN NoCursor ELSE cur
    /\ result' = r.result

BuildSelectQuery ==
    /\ pc = "ready"
    /\ \E t \in Tables, c \in ColumnLists, f \in Dicts :
           Built("build_select_query", t, c, <<>>, f, build_select_query(t, c, f))

BuildInsertQuery ==
    /\ pc = "ready"
    /\ \E t \in Tables, v \in Dicts :
           Built("build_insert_query", t, <<>>, v, <<>>, build_insert_query(t, v))

BuildUpdateQuery ==
    /\ pc = "ready"
    /\ \E t \in Tables, v \in Dicts, f \in Dicts :
           Built("build_update_query", t, <<>>, v, f, build_update_query(t, v, f))

BuildDeleteQuery ==
    /\ pc = "ready"
    /\ \E t \in Tables, f \in Dicts :
           Built("build_delete_query", t, <<>>, <<>>, f, build_delete_query(t, f))

Select ==
    /\ pc = "ready"
    /\ \E t \in Tables, c \in ColumnLists, f \in Dicts, cur \in Cursors :
           Ran("select", t, c, <<>>, f, select(t, c, f, cur), cur)

Insert ==
    /\ pc = "ready"
    /\ \E t \in Tables, v \in Dicts, cur \in Cursors :
           Ran("insert", t, <<>>, v, <<>>, insert(t, v, cur), cur)

Update ==
    /\ pc = "ready"
    /\ \E t \in Tables, v \in Dicts, f \in Dicts, cur \in Cursors :
           Ran("update", t, <<>>, v, f, update(t, v, f, cur), cur)

Delete ==
    /\ pc = "ready"
    /\ \E t \in Tables, f \in Dicts, cur \in Cursors :
           Ran("delete", t, <<>>, <<>>, f, delete(t, f, cur), cur)

\* a direct call of execute_query(query, args, ret_result)
ExecuteQuery ==
    /\ pc = "ready"
    /\ \E s \in Statements, ret_result \in BOOLEAN, cur \in Cursors :
           LET e == execute_query(s.query, s.args, ret_result, cur)
           IN  Ran("execute_query", <<>>, <<>>, <<>>, <<>>,
                   [built |-> NotBuilt, calls |-> <<>>,
                    executed |-> << [query |-> s.query, args |-> s.args,
                                     ret_result |-> ret_result] >>,
                    sent |-> e.sent, result |-> e.out], cur)

Next ==
    \/ BuildSelectQuery
    \/ BuildInsertQuery
    \/ BuildUpdateQuery
    \/ BuildDeleteQuery
    \/ Select
    \/ Insert
    \/ Update
    \/ Delete
    \/ ExecuteQuery

Spec ==
    Init /\ [][Next]_vars

(***************************************************************************)
(* The texts the specification names, written independently of the code's  *)
(* literals, and what is read off a template.                              *)
(***************************************************************************)
\* `SELECT `
T_SELECT ==
    <<"S", "E", "L", "E", "C", "T", " ">>
\* `*`
T_STAR ==
    <<"*">>
\* ` FROM `
T_FROM ==
    <<" ", "F", "R", "O", "M", " ">>
\* ` WHERE `
T_WHERE ==
    <<" ", "W", "H", "E", "R", "E", " ">>
\* ` AND `
T_AND ==
    <<" ", "A", "N", "D", " ">>
\* ` = %s`
T_EQ_PH ==
    <<" ", "=", " ", "%", "s">>
\* `%s`
T_PH ==
    <<"%", "s">>
\* `, `
T_SEP ==
    <<",", " ">>
\* `INSERT INTO `
T_INSERT_INTO ==
    <<"I", "N", "S", "E", "R", "T", " ", "I", "N", "T", "O", " ">>
\* ` (`
T_OPEN ==
    <<" ", "(">>
\* `) VALUES (`
T_VALUES_OPEN ==
    <<")", " ", "V", "A", "L", "U", "E", "S", " ", "(">>
\* `)`
T_CLOSE ==
    <<")">>
\* `UPDATE `
T_UPDATE ==
    <<"U", "P", "D", "A", "T", "E", " ">>
\* ` SET `
T_SET ==
    <<" ", "S", "E", "T", " ">>
\* `DELETE FROM `
T_DELETE_FROM ==
    <<"D", "E", "L", "E", "T", "E", " ", "F", "R", "O", "M", " ">>
\* `WHERE`
T_KW_WHERE ==
    <<"W", "H", "E", "R", "E">>
\* `VALUES`
T_KW_VALUES ==
    <<"V", "A", "L", "U", "E", "S">>

RECURSIVE Join(_, _)
\* the texts of `parts` joined by `sep`
Join(parts, sep) ==
    IF Len(parts) = 0 THEN <<>>
    ELSE IF Len(parts) = 1 THEN parts[1]
    ELSE parts[1] \o sep \o Join(Tail(parts), sep)

\* whether text q holds text sub at position i
HasAt(q, sub, i) ==
    /\ i >= 1
    /\ i + Len(sub) - 1 <= Len(q)
    /\ SubSeq(q, i, i + Len(sub) - 1) = sub

\* the number of places of text q that hold text sub
Occurrences(q, sub) ==
    Cardinality({i \in 1..Len(q) : HasAt(q, sub, i)})

\* whether text q ends with text suffix
EndsWith(q, suffix) ==
    HasAt(q, suffix, Len(q) - Len(suffix) + 1)

\* whether sequence a ends with sequence tail
ArgsEndWith(a, tail) ==
    /\ Len(tail) <= Len(a)
    /\ SubSeq(a, Len(a) - Len(tail) + 1, Len(a)) = tail

\* `<key> = %s` for each key of dict d, in d's order
Conditions(d) ==
    [i \in 1..Len(d) |-> d[i][1] \o T_EQ_PH]

\* the WHERE clause of filters F: ` WHERE k1 = %s AND k2 = %s ...`
WhereClause(F) ==
    T_WHERE \o Join(Conditions(F), T_AND)

\* the clause after the statement's head: nothing when F is empty
OptionalWhere(F) ==
    IF Len(F) = 0 THEN <<>> ELSE WhereClause(F)

\* `%s` n times
Placeholders(n) ==
    [i \in 1..n |-> T_PH]

\* the select-list of a columns list
SelectList(c) ==
    IF Len(c) = 0 THEN T_STAR ELSE Join(c, T_SEP)

Builders ==
    {"build_select_query", "build_insert_query", "build_update_query",
     "build_delete_query"}

Operations ==
    {"select", "insert", "update", "delete"}

(***************************************************************************)
(* C1, C2, C3                                                              *)
(***************************************************************************)
\* the builder of each operation
BuilderOf(o) ==
    CASE o = "select" -> "build_select_query"
      [] o = "insert" -> "build_insert_query"
      [] o = "update" -> "build_update_query"
      [] o = "delete" -> "build_delete_query"

\* the part of template q from its first ` WHERE ` on; '' when it has none
ClauseOf(q) ==
    LET at == {i \in 1..Len(q) : HasAt(q, T_WHERE, i)}
    IN  IF at = {} THEN <<>>
        ELSE SubSeq(q, CHOOSE i \in at : \A j \in at : i <= j, Len(q))

\* the builders that take filters, called with values their contract allows
FilteredBuilderCall ==
    \/ op \in {"build_select_query", "build_delete_query"}
    \/ op = "build_update_query" /\ Len(values) > 0

\* C1: for every table, columns list and filters dict, build_select_query
\* returns `SELECT <select-list> FROM <table>` (then the WHERE clause, if
\* any), where the select-list is `*` for no columns and otherwise the
\* columns joined with `, ` in input order; args are the filters' values.
C1_SelectShape ==
    op = "build_select_query" =>
        /\ built.kind = "return"
        /\ built.query =
               T_SELECT \o SelectList(columns) \o T_FROM \o table
                   \o OptionalWhere(filters)
        /\ built.args = DictValues(filters)

\* C2: for every non-empty filters dict F, the templates of
\* build_select_query, build_update_query and build_delete_query end with
\* ` WHERE ` and `<key> = %s` for each key of F in order, joined by ` AND `
\* (no AND for one entry); the clause has len(F) placeholders and the args
\* end with F's values in that order.
C2_WhereClause ==
    (FilteredBuilderCall /\ Len(filters) > 0) =>
        /\ built.kind = "return"
        /\ EndsWith(built.query, WhereClause(filters))
        /\ ClauseOf(built.query) = WhereClause(filters)
        /\ Occurrences(ClauseOf(built.query), T_PH) = Len(filters)
        /\ ArgsEndWith(built.args, DictValues(filters))
        /\ Len(filters) = 1 => Occurrences(built.query, T_AND) = 0

\* C3: with empty filters, build_select_query, build_update_query and
\* build_delete_query return a template with no WHERE keyword and no
\* trailing space, and no filter arguments: build_delete_query(t, {}) is
\* (`DELETE FROM t`, []) and build_select_query(t, [], {}) is
\* (`SELECT * FROM t`, []).
C3_EmptyFilters ==
    (FilteredBuilderCall /\ Len(filters) = 0) =>
        /\ built.kind = "return"
        /\ Occurrences(built.query, T_KW_WHERE) = 0
        /\ ~EndsWith(built.query, <<" ">>)
        /\ built.args = DictValues(values)
        /\ op = "build_delete_query" =>
               built.query = T_DELETE_FROM \o table
        /\ (op = "build_select_query" /\ Len(columns) = 0) =>
               built.query = T_SELECT \o T_STAR \o T_FROM \o table

(***************************************************************************)
(* C8                                                                      *)
(***************************************************************************)
\* C8: each of select, insert, update and delete calls its builder and then
\* execute_query exactly once, with exactly the template and args the
\* builder returned and ret_result true only for select; a select with
\* filters F hands execute_query len(F) arguments in F's order.
C8_BuildThenExecuteOnce ==
    (op \in Operations /\ (op \in {"insert", "update"} => Len(values) > 0)) =>
        /\ calls = <<BuilderOf(op), "execute_query">>
        /\ built.kind = "return"
        /\ executed = << [query |-> built.query, args |-> built.args,
                          ret_result |-> (op = "select")] >>
        /\ op = "select" => executed[1].args = DictValues(filters)

(***************************************************************************)
(* C4                                                                      *)
(***************************************************************************)
\* C4: for every non-empty values dict V, build_insert_query returns
\* `INSERT INTO <table> (<k1>, <k2>, ...) VALUES (%s, %s, ...)` with V's keys
\* in iteration order, len(V) placeholders, and args exactly V's values in
\* that order; with len(V) = 1 the template holds no comma.
C4_InsertAligned ==
    (op = "build_insert_query" /\ Len(values) > 0) =>
        /\ built.kind = "return"
        /\ built.query =
               T_INSERT_INTO \o table \o T_OPEN
                   \o Join(DictKeys(values), T_SEP) \o T_VALUES_OPEN
                   \o Join(Placeholders(Len(values)), T_SEP) \o T_CLOSE
        /\ Occurrences(built.query, T_PH) = Len(values)
        /\ built.args = DictValues(values)
        /\ Len(values) = 1 => Occurrences(built.query, <<",">>) = 0

\* build_insert_query returned for two columns with different values
C4_Witness ==
    /\ op = "build_insert_query"
    /\ Len(values) = 2
    /\ values[1][2] # values[2][2]
    /\ built.kind = "return"
    /\ Len(built.args) = 2

(***************************************************************************)
(* C5                                                                      *)
(***************************************************************************)
\* C5: for every non-empty values dict V and every filters dict F,
\* build_update_query returns `UPDATE <table> SET <k1> = %s, <k2> = %s, ...`
\* followed by the WHERE clause when F is not empty, and args are V's values
\* in iteration order followed by F's values in iteration order, so
\* len(args) = len(V) + len(F).
C5_UpdateSetThenWhere ==
    (op = "build_update_query" /\ Len(values) > 0) =>
        /\ built.kind = "return"
        /\ built.query =
               T_UPDATE \o table \o T_SET
                   \o Join(Conditions(values), T_SEP) \o OptionalWhere(filters)
        /\ built.args = DictValues(values) \o DictValues(filters)
        /\ Len(built.args) = Len(values) + Len(filters)

\* build_update_query returned for two SET columns and a filter
C5_Witness ==
    /\ op = "build_update_query"
    /\ Len(values) = 2
    /\ Len(filters) >= 1
    /\ values[1][2] # values[2][2]
    /\ values[2][2] # filters[1][2]
    /\ built.kind = "return"
    /\ Len(built.args) = 2 + Len(filters)

RECURSIVE Words(_)
\* the words of text q: its maximal runs without a space, left to right
Words(q) ==
    IF Len(q) = 0 THEN <<>>
    ELSE IF q[1] = " " THEN Words(Tail(q))
    ELSE LET stops == {i \in 1..Len(q) : q[i] = " "}
             n == IF stops = {} THEN Len(q)
                  ELSE (CHOOSE i \in stops : \A j \in stops : i <= j) - 1
         IN  <<SubSeq(q, 1, n)>> \o Words(SubSeq(q, n + 1, Len(q)))

\* a word without its punctuation
Bare(w) ==
    SelectSeq(w, LAMBDA ch : ch \notin {"(", ")", ","})

RECURSIVE Ascending(_)
\* the numbers of set S in increasing order
Ascending(S) ==
    IF S = {} THEN <<>>
    ELSE LET m == CHOOSE i \in S : \A j \in S : i <= j
         IN  <<m>> \o Ascending(S \ {m})

\* the places of the placeholders among the words, left to right
PlaceholderPlaces(ws) ==
    Ascending({i \in 1..Len(ws) : Bare(ws[i]) = T_PH})

\* the places of word w among the words, left to right
PlacesOf(ws, w) ==
    Ascending({i \in 1..Len(ws) : ws[i] = w})

\* whether dict d has key k
HasKey(d, k) ==
    \E i \in 1..Len(d) : d[i][1] = k

\* d[k]
Lookup(d, k) ==
    d[CHOOSE i \in 1..Len(d) : d[i][1] = k][2]

\* In `... <column> = %s ...` the placeholder at word p belongs to the column
\* two words before it: a column of the SET list before the word WHERE, a
\* filter after it.
OwnerOfCondition(ws, p, V, F) ==
    LET wh == PlacesOf(ws, T_KW_WHERE)
        inWhere == Len(wh) > 0 /\ p > wh[1]
        d == IF inWhere THEN F ELSE V
    IN  IF p > 2 /\ ws[p - 1] = <<"=">> /\ HasKey(d, Bare(ws[p - 2]))
        THEN <<TRUE, Lookup(d, Bare(ws[p - 2]))>>
        ELSE <<FALSE, 0>>

\* In `INSERT INTO t (c1, c2) VALUES (%s, %s)` the i-th placeholder belongs to
\* the i-th word of the column list: the words between the table and VALUES.
OwnerOfInsert(ws, i, V) ==
    LET vl == PlacesOf(ws, T_KW_VALUES)
    IN  IF Len(vl) > 0 /\ 3 + i < vl[1] /\ HasKey(V, Bare(ws[3 + i]))
        THEN <<TRUE, Lookup(V, Bare(ws[3 + i]))>>
        ELSE <<FALSE, 0>>

C9_BuilderFailureSendsNothing ==
    (op \in Operations /\ built.kind = "raise") =>
        /\ \A i \in 1..Len(calls) : calls[i] # "execute_query"
        /\ executed = <<>>
        /\ sent = <<>>
        /\ result.kind = "raise"
        /\ result.exc = built.exc

\* insert was called with no values and its builder raised
C9_Witness ==
    /\ op = "insert"
    /\ Len(values) = 0
    /\ calls = <<"build_insert_query">>
    /\ built.kind = "raise"
    /\ result.kind = "raise"

(***************************************************************************)
(* C10                                                                     *)
(***************************************************************************)
\* C10: execute_query hands the template and args to the cursor exactly
\* once, unchanged, and the flag ret_result alone selects the kind of its
\* result: the fetched rows when it is true, whatever count the cursor
\* reported, and the count the cursor reported when it is false.
C10_ExecuteByFlag ==
    Len(executed) > 0 =>
        /\ Len(executed) = 1
        /\ Len(sent) = 1
        /\ sent[1].query = executed[1].query
        /\ sent[1].args = executed[1].args
        /\ ~cursor.fails =>
               IF executed[1].ret_result
               THEN result = ReturnRows(cursor.rows)
               ELSE result = ReturnCount(cursor.count)

\* execute_query was called with ret_result true on a DELETE statement; the
\* cursor reported one affected row and no rows to fetch, and the call
\* returned the (empty) rows
C10_Witness ==
    /\ op = "execute_query"
    /\ Len(executed) = 1
    /\ executed[1].ret_result
    /\ HasAt(executed[1].query, T_DELETE_FROM, 1)
    /\ Len(executed[1].args) = 1
    /\ ~cursor.fails
    /\ cursor.count = 1
    /\ cursor.rows = <<>>
    /\ result.tag = "rows"
    /\ result.rows = <<>>

====
